---- MODULE Spec2Model ----
(***************************************************************************)
(* Model of the ACCE service (src/acce/acce_al.py): ACCE.start,            *)
(* ACCE.execute, ACCE._poll_for_results, ACCE._get_submission_artifacts    *)
(* and _safe_get_json.  One execution of the service is a sequential       *)
(* program; the actions cut it at its blocking calls (the upload POST,     *)
(* each poll GET, each sleep, the archive GET).                            *)
(***************************************************************************)
EXTENDS Integers, Sequences, FiniteSets, TLC

\* ------------------------------------------------------------------ bounds
\* Largest configured max_poll_attempts / poll_delay the model draws.
MaxAttempts == 2
MaxDelay == 2

\* Defaults of self.config.get("max_poll_attempts", 20) / ("poll_delay", 20).
DefaultMaxPollAttempts == 20
DefaultPollDelay == 20

\* ------------------------------------------------------- JSON-like values
\* Python values that travel through the service.  Every value is a record
\* of one shape: t is the Python type, s the text of a str, o the items of
\* a dict in insertion order (records [k |-> key, v |-> value]).
Str(x) == [t |-> "str", s |-> x, o |-> <<>>]
Obj(items) == [t |-> "dict", s |-> "", o |-> items]
Item(key, val) == [k |-> key, v |-> val]
None == [t |-> "none", s |-> "", o |-> <<>>]
\* [e], the one-element list holding the JSONDecodeError instance.
ExcList == [t |-> "list_of_exception", s |-> "JSONDecodeError", o |-> <<>>]
\* A local variable that has not been assigned yet.
Unbound == [t |-> "unbound", s |-> "", o |-> <<>>]

\* key in d
Has(d, key) == \E n \in 1..Len(d.o) : d.o[n].k = key
\* d.get(key)  (None when the key is absent)
Get(d, key) ==
    IF Has(d, key)
    THEN d.o[CHOOSE n \in 1..Len(d.o) : d.o[n].k = key].v
    ELSE None
\* Python truthiness of a value.
Truthy(val) ==
    CASE val.t = "none" -> FALSE
      [] val.t = "str" -> val.s # ""
      [] val.t = "dict" -> val.o # <<>>
      [] OTHER -> TRUE

\* json.dumps: a str is quoted, None is null, a dict is written with ", "
\* between items and ": " after each key; anything else raises TypeError.
RECURSIVE Serializable(_)
Serializable(val) ==
    CASE val.t = "none" -> TRUE
      [] val.t = "str" -> TRUE
      [] val.t = "dict" -> \A n \in 1..Len(val.o) : Serializable(val.o[n].v)
      [] OTHER -> FALSE

RECURSIVE Dumps(_)
RECURSIVE DumpsItems(_, _)
DumpsItems(items, n) ==
    IF n > Len(items) THEN ""
    ELSE (IF n > 1 THEN ", " ELSE "")
         \o "\"" \o items[n].k \o "\": " \o Dumps(items[n].v)
         \o DumpsItems(items, n + 1)
Dumps(val) ==
    CASE val.t = "none" -> "null"
      [] val.t = "str" -> "\"" \o val.s \o "\""
      [] val.t = "dict" -> "{" \o DumpsItems(val.o, 1) \o "}"
      [] OTHER -> "<TypeError>"

\* ------------------------------------------------------------ HTTP inputs
\* A response: its status code and what .json() does with its content
\* (decodable: content is a JSON document `doc`; otherwise JSONDecodeError).
Response(code, dec, doc) == [status_code |-> code, decodable |-> dec, doc |-> doc]
\* No response received yet.
NoResponse == [status_code |-> 0, decodable |-> FALSE, doc |-> None]

SafeGetJson(req) ==
    IF req.decodable THEN req.doc
    ELSE Obj(<<Item("error", ExcList)>>)

Verdict == Obj(<<Item("verdict", Str("malicious"))>>)

UploadDocs ==
    { Obj(<<Item("uuid", Str("abc")), Item("result", Str("http://x/poll"))>>),
      Obj(<<Item("uuid", Str("abc")), Item("result", Str("http://x/poll")),
            Item("error", Str("upload warning"))>>),
      Obj(<<Item("uuid", Str("abc"))>>),
      Obj(<<Item("error", Str("quota exceeded"))>>),
      Obj(<<>>) }
UploadResponses ==
    { Response(c, TRUE, d) : c \in {201, 200, 500}, d \in UploadDocs }
    \cup { Response(c, FALSE, None) : c \in {201, 500} }

PollDocs ==
    { Obj(<<>>),
      Obj(<<Item("status", Str("running"))>>),
      Obj(<<Item("status", Str("pending")), Item("error", Str("still queued"))>>),
      Obj(<<Item("status", Str("running")), Item("result", Verdict)>>),
      Obj(<<Item("status", Str("complete")), Item("result", Verdict)>>),
      Obj(<<Item("result", Verdict)>>),
      Obj(<<Item("result", Str("clean"))>>),
      Obj(<<Item("error", Str("analysis failed"))>>),
      Obj(<<Item("result", Verdict), Item("error", Str("analysis failed"))>>) }
PollResponses ==
    { Response(c, TRUE, d) : c \in {200, 500}, d \in PollDocs }
    \cup { Response(c, FALSE, None) : c \in {200, 500} }

\* ------------------------------------------------------------------ state
VARIABLES
    pc,               \* position of the execution
    config,           \* self.config: the poll tunables that are set
    api_key_default,  \* self.api_key_default is truthy
    get_artifacts,    \* request.get_param("get_artifacts")
    errors,           \* execute: errors
    results,          \* execute: results
    submission_id,    \* execute: submission_id
    result_data,      \* _poll_for_results: result_data
    attempt,          \* _poll_for_results: loop iterations started
    poll_errors,      \* _poll_for_results: errors
    last_code,        \* _poll_for_results: result_req.status_code
    poll_stop,        \* which return of _poll_for_results was taken
    artifact_errors,  \* _get_submission_artifacts: errors
    extracted,        \* request.add_extracted calls
    request_result,   \* request.result: None, or the body of its section
    log,              \* self.log records
    raised,           \* exception that left execute, or "none"
    stages,           \* stages entered, in order
    posts,            \* requests.post calls
    gets,             \* requests.get calls of the poller
    archive_gets,     \* requests.get calls of the extractor
    sleeps,           \* sleep calls
    slept,            \* total time slept
    upload_response,  \* the response of the upload POST, once received
    archive_response, \* the response of the archive GET, once received
    only_running_before \* every poll response before the last was running/pending

vars == <<pc, config, api_key_default, get_artifacts, errors, results,
          submission_id, result_data, attempt, poll_errors, last_code,
          poll_stop, artifact_errors, extracted, request_result, log, raised,
          stages, posts, gets, archive_gets, sleeps, slept, upload_response,
          archive_response, only_running_before>>

\* self.config.get(key, default)
ConfigGet(key, default) == IF key \in DOMAIN config THEN config[key] ELSE default
max_poll_attempts == ConfigGet("max_poll_attempts", DefaultMaxPollAttempts)
poll_delay == ConfigGet("poll_delay", DefaultPollDelay)

\* The service configurations the model draws: each tunable is either
\* left out (the default applies) or set to a small value.
ConfigRange(key) == IF key = "max_poll_attempts" THEN 0..MaxAttempts ELSE 0..MaxDelay
Configs ==
    UNION { { c \in [ keys -> 0..(MaxAttempts + MaxDelay) ] :
              \A key \in keys : c[key] \in ConfigRange(key) } :
            keys \in SUBSET {"max_poll_attempts", "poll_delay"} }

\* ---------------------------------------------------------------- messages
InvalidStatusMsg(code) ==
    Str("Invalid status code " \o ToString(code) \o " received from file upload")
NoResultsUrlMsg ==
    Str("Results url/submission_id not returned from original request, unable to retrieve results")
BadStatusMsg(code) ==
    Str("Bad status code " \o ToString(code) \o " from results polling")
MaxPollMsg(n, delay) ==
    Str("Max poll attempts (" \o ToString(n) \o ") exceeded after waiting "
        \o ToString(n * delay) \o " seconds")
NotZipMsg ==
    Str("Expected content to be a zipfile, but zipfile.is_zipfile() returned False")

Init ==
    /\ pc = "start"
    /\ config \in Configs
    /\ api_key_default = FALSE
    /\ get_artifacts = FALSE
    /\ errors = <<>>
    /\ results = Unbound
    /\ submission_id = Unbound
    /\ result_data = Unbound
    /\ attempt = 0
    /\ poll_errors = <<>>
    /\ last_code = 0
    /\ poll_stop = "none"
    /\ artifact_errors = <<>>
    /\ extracted = <<>>
    /\ request_result = "None"
    /\ log = <<>>
    /\ raised = "none"
    /\ stages = <<>>
    /\ posts = 0
    /\ gets = 0
    /\ archive_gets = 0
    /\ sleeps = 0
    /\ slept = 0
    /\ upload_response = NoResponse
    /\ archive_response = NoResponse
    /\ only_running_before = TRUE

\* ------------------------------------------------------------------ start
\* ACCE.start: base_url must be set; the default api key is remembered.
Start ==
    /\ pc = "start"
    /\ \E base_url_set \in BOOLEAN, key_default \in BOOLEAN :
         IF ~base_url_set
         THEN /\ raised' = "InvalidConfiguration"
              /\ pc' = "raised"
              /\ UNCHANGED api_key_default
         ELSE /\ api_key_default' = key_default
              /\ pc' = "execute"
              /\ UNCHANGED raised
    /\ UNCHANGED <<config, get_artifacts, errors, results, submission_id,
                   result_data, attempt, poll_errors, last_code, poll_stop,
                   artifact_errors, extracted, request_result, log, stages,
                   posts, gets, archive_gets, sleeps, slept, upload_response,
                   archive_response, only_running_before>>

\* Mutant of LoopNext: an off-by-one loop bound.
LoopNextOffByOne(done) == IF done <= max_poll_attempts THEN "poll" ELSE "exhausted"

\* for _ in range(max_poll_attempts): the next position of the poller
\* after `done` iterations.
LoopNext(done) == IF done < max_poll_attempts THEN "poll" ELSE "exhausted"

\* ---------------------------------------------------------------- execute
\* ACCE.execute up to the call of _poll_for_results: parameter and file
\* checks, the upload, and the handling of the upload response.
FileKinds == {"file", "dir", "missing"}

\* Mutant of UploadAccepted: any 2xx code is taken as success.
UploadAcceptedAny2xx(code) == code \in 200..299

\* if response.status_code != 201: ... return None
UploadAccepted(code) == code = 201

Execute ==
    /\ pc = "execute"
    /\ \E api_key \in BOOLEAN, ga \in BOOLEAN, file \in FileKinds,
          response \in UploadResponses :
         LET body == SafeGetJson(response)
             err == Get(body, "error")
             results_url == Get(body, "result")
             sid == Get(body, "uuid")
             errs1 == IF Truthy(err) THEN <<err>> ELSE <<>>
             errs2 == IF ~(Truthy(results_url) /\ Truthy(sid))
                      THEN <<NoResultsUrlMsg>> ELSE <<>>
             abort(msgs, sent) ==
                 /\ log' = log \o msgs
                 /\ posts' = posts + sent
                 /\ upload_response' = IF sent = 1 THEN response ELSE upload_response
                 /\ pc' = "done"
                 /\ UNCHANGED <<get_artifacts, errors, results, submission_id,
                                stages, raised>>
         IN  IF ~api_key /\ ~api_key_default
             THEN /\ raised' = "InvalidConfiguration"
                  /\ pc' = "raised"
                  /\ UNCHANGED <<get_artifacts, errors, results, submission_id,
                                 stages, log, posts, upload_response>>
             ELSE IF file = "dir"
             THEN abort(<<Str("The path specified appears to be a directory and not a file.")>>, 0)
             ELSE IF file = "missing"
             THEN abort(<<Str("The file specified for upload does not exist.")>>, 0)
             ELSE IF ~UploadAccepted(response.status_code)
             THEN abort(<<Str("Reading sample into memory."),
                          InvalidStatusMsg(response.status_code)>>
                        \o (IF Truthy(err) THEN <<err>> ELSE <<>>), 1)
             ELSE /\ log' = Append(log, Str("Reading sample into memory."))
                  /\ posts' = posts + 1
                  /\ upload_response' = response
                  /\ get_artifacts' = ga
                  /\ errors' = errs1 \o errs2
                  /\ results' = body
                  /\ submission_id' = sid
                  /\ stages' = <<"submitter", "poller">>
                  /\ pc' = LoopNext(0)
                  /\ UNCHANGED raised
    /\ UNCHANGED <<config, api_key_default, result_data, attempt, poll_errors,
                   last_code, poll_stop, artifact_errors, extracted,
                   request_result, gets, archive_gets, sleeps, slept,
                   archive_response, only_running_before>>

\* ------------------------------------------------------- _poll_for_results
\* return payload, errors  -- and, back in execute, results, poll_errors =
\* ...; errors.extend(poll_errors); the branch on get_artifacts.
PollReturn(payload, errs, how) ==
    /\ results' = payload
    /\ poll_errors' = errs
    /\ errors' = errors \o errs
    /\ poll_stop' = how
    /\ pc' = IF get_artifacts THEN "artifacts" ELSE "assemble"

\* Mutant of IsRunning: "pending" is forgotten.
IsRunningOnly(data) == Get(data, "status") = Str("running")
\* Mutant of IsErrorResponse: both conditions are required.
IsErrorResponseBoth(code, data) == code # 200 /\ Has(data, "error")
\* Mutant of ResultPayload: the whole body is returned.
ResultPayloadWholeBody(data) == data

IsRunning(data) == Get(data, "status") \in {Str("running"), Str("pending")}
IsErrorResponse(code, data) == code # 200 \/ Has(data, "error")
\* return result_data.get("result"), errors
ResultPayload(data) == Get(data, "result")

\* One iteration of the loop up to its sleep: the GET and the checks on
\* the response.
PollGet ==
    /\ pc = "poll"
    /\ \E result_req \in PollResponses :
         LET data == SafeGetJson(result_req)
             code == result_req.status_code
         IN  /\ result_data' = data
             /\ last_code' = code
             /\ attempt' = attempt + 1
             /\ gets' = gets + 1
             /\ only_running_before' =
                  (gets = 0 \/ (only_running_before /\ IsRunning(result_data)))
             /\ IF IsRunning(data)
                THEN /\ pc' = "sleep"
                     /\ UNCHANGED <<results, poll_errors, errors, poll_stop>>
                ELSE IF IsErrorResponse(code, data)
                THEN PollReturn(data,
                                poll_errors
                                \o (IF Has(data, "error")
                                    THEN <<Get(data, "error")>> ELSE <<>>)
                                \o (IF code # 200
                                    THEN <<BadStatusMsg(code)>> ELSE <<>>),
                                "error")
                ELSE IF Has(data, "result")
                THEN PollReturn(ResultPayload(data), poll_errors, "result")
                ELSE /\ pc' = "sleep"
                     /\ UNCHANGED <<results, poll_errors, errors, poll_stop>>
    /\ UNCHANGED <<config, api_key_default, get_artifacts, submission_id,
                   artifact_errors, extracted, request_result, log, raised,
                   stages, posts, archive_gets, sleeps, slept, upload_response,
                   archive_response>>

\* sleep(poll_delay), then the loop header.
Sleep ==
    /\ pc = "sleep"
    /\ sleeps' = sleeps + 1
    /\ slept' = slept + poll_delay
    /\ pc' = LoopNext(attempt)
    /\ UNCHANGED <<config, api_key_default, get_artifacts, errors, results,
                   submission_id, result_data, attempt, poll_errors, last_code,
                   poll_stop, artifact_errors, extracted, request_result, log,
                   raised, stages, posts, gets, archive_gets, upload_response,
                   archive_response, only_running_before>>

\* After the loop: the budget-exceeded message and return result_data,
\* which is an unassigned local when the loop body never ran.
PollExhausted ==
    /\ pc = "exhausted"
    /\ LET errs == Append(poll_errors, MaxPollMsg(max_poll_attempts, poll_delay))
       IN  IF result_data = Unbound
           THEN /\ poll_errors' = errs
                /\ raised' = "UnboundLocalError"
                /\ pc' = "raised"
                /\ UNCHANGED <<results, errors, poll_stop>>
           ELSE /\ PollReturn(result_data, errs, "exhausted")
                /\ UNCHANGED raised
    /\ UNCHANGED <<config, api_key_default, get_artifacts, submission_id,
                   result_data, attempt, last_code, artifact_errors, extracted,
                   request_result, log, stages, posts, gets, archive_gets,
                   sleeps, slept, upload_response, archive_response,
                   only_running_before>>

\* ------------------------------------------------ _get_submission_artifacts
\* The archive response: its status code, whether zipfile.is_zipfile
\* accepts its content, and the entries of the zip (name and bytes as read
\* with the password b"infected").
Entry(name, data) == [name |-> name, data |-> data]
ArchiveEntries ==
    { <<>>,
      <<Entry("extracted_components/", ""), Entry("report.json", "R"),
        Entry("extracted_components/a.bin", "AAA")>>,
      <<Entry("extracted_components/a.bin", "AAA"),
        Entry("extracted_components/sub/b.bin", "BBB")>> }
ArchiveResponses ==
    { [status_code |-> c, is_zipfile |-> FALSE, entries |-> <<>>] : c \in {200, 404} }
    \cup { [status_code |-> c, is_zipfile |-> TRUE, entries |-> e] :
           c \in {200, 404}, e \in ArchiveEntries }

\* re.search("^extracted_components/.+$", x)
ArtifactPrefix == "extracted_components/"
IsArtifactName(x) ==
    /\ Len(x) > Len(ArtifactPrefix)
    /\ SubSeq(x, 1, Len(ArtifactPrefix)) = ArtifactPrefix
IsArtifactEntry(e) == IsArtifactName(e.name)

\* hashlib.sha256 over the bytes, hexdigest: an injective stand-in.
Sha256Hex(data) == "sha256:" \o data
\* path.join(self.working_directory, digest)
ArtifactPath(digest) == "/working_directory/" \o digest

RECURSIVE AddExtracted(_, _)
AddExtracted(names, n) ==
    IF n > Len(names) THEN <<>>
    ELSE <<[path |-> ArtifactPath(Sha256Hex(names[n].data)),
            name |-> Sha256Hex(names[n].data),
            description |-> "Extracted from request.sha256",
            content |-> names[n].data]>>
         \o AddExtracted(names, n + 1)

\* The errors of the extractor that reach execute's accumulated errors:
\* the call statement discards whatever the method holds when it returns.
ArtifactErrorsReturned(errs) == <<>>

GetSubmissionArtifacts ==
    /\ pc = "artifacts"
    /\ \E response \in ArchiveResponses :
         /\ archive_gets' = archive_gets + 1
         /\ archive_response' = response
         /\ log' = IF response.status_code # 200
                   THEN Append(log, Str("Failed to get archive from ACCE."))
                   ELSE log
         /\ IF ~response.is_zipfile
            THEN /\ artifact_errors' = <<NotZipMsg>>
                 /\ errors' = errors \o ArtifactErrorsReturned(<<NotZipMsg>>)
                 /\ UNCHANGED extracted
            ELSE /\ artifact_errors' = <<>>
                 /\ errors' = errors \o ArtifactErrorsReturned(<<>>)
                 /\ extracted' = extracted
                      \o AddExtracted(SelectSeq(response.entries, IsArtifactEntry), 1)
    /\ stages' = Append(stages, "extractor")
    /\ pc' = "assemble"
    /\ UNCHANGED <<config, api_key_default, get_artifacts, results,
                   submission_id, result_data, attempt, poll_errors, last_code,
                   poll_stop, request_result, raised, posts, gets, sleeps,
                   slept, upload_response, only_running_before>>

\* --------------------------------------------------------- result assembly
\* Mutant of SectionBody: the first accumulated error is put in the body.
SectionBodyWithErrors(payload) ==
    Dumps(Obj(<<Item("results", payload),
                Item("error", IF errors # <<>> THEN errors[1] ELSE None)>>))

\* The body of the report section.
SectionBody(payload) == Dumps(payload)

\* result.add_section(ResultSection(..., body=json.dumps(results)));
\* request.result = result
Assemble ==
    /\ pc = "assemble"
    /\ stages' = Append(stages, "assembly")
    /\ IF Serializable(results)
       THEN /\ request_result' = SectionBody(results)
            /\ pc' = "done"
            /\ UNCHANGED raised
       ELSE /\ raised' = "TypeError"
            /\ pc' = "raised"
            /\ UNCHANGED request_result
    /\ UNCHANGED <<config, api_key_default, get_artifacts, errors, results,
                   submission_id, result_data, attempt, poll_errors, last_code,
                   poll_stop, artifact_errors, extracted, log, posts, gets,
                   archive_gets, sleeps, slept, upload_response,
                   archive_response, only_running_before>>

Next ==
    \/ Start
    \/ Execute
    \/ PollGet
    \/ Sleep
    \/ PollExhausted
    \/ GetSubmissionArtifacts
    \/ Assemble

Spec == Init /\ [][Next]_vars

\* ================================================================== claims
\* sub occurs in the string text.
Contains(text, sub) ==
    \E n \in 1..(Len(text) - Len(sub) + 1) : SubSeq(text, n, n + Len(sub) - 1) = sub
\* The error value err can be read in the JSON text body.
Embedded(err, body) == err.t = "str" /\ Contains(body, "\"" \o err.s \o "\"")
\* status is "running" or "pending"
StatusRunningOrPending(data) ==
    Has(data, "status") /\ Get(data, "status").s \in {"running", "pending"}
PollerReturned == poll_stop # "none"
Uploaded == upload_response # NoResponse

\* C1: the poller issues at most max_poll_attempts GET requests and then
\* stops (no GET is due once the budget is used); it sleeps at most
\* max_poll_attempts times, at most max_poll_attempts * poll_delay in all.
C1_PollBounded ==
    /\ gets <= max_poll_attempts
    /\ sleeps <= max_poll_attempts
    /\ sleeps <= gets
    /\ slept <= max_poll_attempts * poll_delay
    /\ (pc = "poll" => gets < max_poll_attempts)
    /\ (PollerReturned => pc \notin {"poll", "sleep", "exhausted"})
C1_Witness ==
    /\ poll_stop = "exhausted"
    /\ max_poll_attempts >= 2
    /\ gets = max_poll_attempts
    /\ sleeps = max_poll_attempts
    /\ poll_delay > 0
    /\ slept = max_poll_attempts * poll_delay

C3_ExpectedErrors ==
    (IF Has(result_data, "error") THEN <<Get(result_data, "error")>> ELSE <<>>)
    \o (IF last_code # 200
        THEN <<Str("Bad status code " \o ToString(last_code) \o " from results polling")>>
        ELSE <<>>)
C3_Stopped ==
    /\ poll_stop = "error"
    /\ results = result_data
    /\ poll_errors = C3_ExpectedErrors

C4_ExpectedJson(val) ==
    IF val = Str("clean") THEN "\"clean\""
    ELSE IF val = Obj(<<Item("verdict", Str("malicious"))>>)
    THEN "{\"verdict\": \"malicious\"}"
    ELSE "?"
C4_HappyPath ==
    /\ Uploaded
    /\ upload_response.status_code = 201
    /\ upload_response.decodable
    /\ Has(upload_response.doc, "uuid")
    /\ Has(upload_response.doc, "result")
    /\ ~Has(upload_response.doc, "error")
    /\ gets >= 1
    /\ only_running_before
    /\ ~StatusRunningOrPending(result_data)
    /\ last_code = 200
    /\ Has(result_data, "result")
    /\ ~Has(result_data, "error")
C5_LoopExhausted == poll_stop = "exhausted" \/ raised = "UnboundLocalError"
\* C5: when the poll loop ends because the attempts are exhausted, the
\* poller returns the body of the last response received, unchanged, and
\* the last returned error is the budget-exceeded message with
\* max_poll_attempts and max_poll_attempts * poll_delay.
C5_Claim ==
    C5_LoopExhausted =>
        /\ poll_stop = "exhausted"
        /\ gets >= 1
        /\ results = result_data
        /\ poll_errors # <<>>
        /\ poll_errors[Len(poll_errors)] =
             Str("Max poll attempts (" \o ToString(max_poll_attempts)
                 \o ") exceeded after waiting "
                 \o ToString(max_poll_attempts * poll_delay) \o " seconds")

\* C6: an upload response whose code is not 201 is logged with its code,
\* no result is set, no poll and no archive request follows, and the
\* upload is not sent again.
C6_RejectedUploadAborts ==
    (Uploaded /\ upload_response.status_code # 201) =>
        /\ pc = "done"
        /\ raised = "none"
        /\ request_result = "None"
        /\ posts = 1
        /\ gets = 0
        /\ archive_gets = 0
        /\ stages = <<>>
        /\ \E n \in 1..Len(log) :
             log[n] = Str("Invalid status code "
                          \o ToString(upload_response.status_code)
                          \o " received from file upload")
C6_Witness ==
    /\ Uploaded
    /\ upload_response.status_code = 500
    /\ pc = "done"
    /\ Len(log) = 3

\* C7: when the archive bytes are not a well-formed zip, no artifact is
\* registered and exactly one error is added to the accumulated errors.
C7_Claim ==
    [][ (pc = "artifacts" /\ ~archive_response'.is_zipfile)
        => /\ extracted' = <<>>
           /\ Len(errors') = Len(errors) + 1 ]_vars

\* C8 as stated: no accumulated error is embedded in the JSON body of the
\* report section.
C8_Original ==
    request_result # "None" =>
        \A n \in 1..Len(errors) : ~Embedded(errors[n], request_result)
\* C8 amended: the body is the JSON of the poller's payload and nothing
\* else; an accumulated error can be read in it only when the poller
\* stopped on an error response and the error is that response's own
\* "error" entry, which is part of the payload.
C8_OnlyPayloadErrors ==
    request_result # "None" =>
        \A n \in 1..Len(errors) :
            Embedded(errors[n], request_result) =>
                /\ poll_stop = "error"
                /\ results = result_data
                /\ Has(result_data, "error")
                /\ errors[n] = Get(result_data, "error")
C8_Witness ==
    /\ request_result # "None"
    /\ poll_stop = "error"
    /\ Len(errors) = 3
    /\ Embedded(errors[2], request_result)
    /\ ~Embedded(errors[1], request_result)
    /\ ~Embedded(errors[3], request_result)

\* C9: after a 201 upload the stages run in the order poller, extractor
\* (exactly when get_artifacts is set), result assembly, whatever the
\* upload body lacks and however the poller stopped; no stage is skipped.
C9_Claim ==
    (/\ Uploaded
     /\ upload_response.status_code = 201
     /\ pc \in {"done", "raised"}) =>
        /\ stages = <<"submitter", "poller">>
                    \o (IF get_artifacts THEN <<"extractor">> ELSE <<>>)
                    \o <<"assembly">>
        /\ pc = "done"
        /\ request_result # "None"

\* C10: for every max_poll_attempts >= 0 the poller ends by returning a
\* payload that comes from a response it received: no unhandled fault, no
\* payload without a poll.
C10_Claim ==
    /\ raised # "UnboundLocalError"
    /\ (PollerReturned =>
          /\ gets >= 1
          /\ results \in {result_data, Get(result_data, "result")})
====
